---- MODULE Spec2Model ----
(***************************************************************************)
(* State-machine model of torrent_tester.py: the results document          *)
(* (versions x titles x verdicts), its persistence to the results path,    *)
(* the sampler, the interactive session and the statistics report.         *)
(*                                                                         *)
(* One action is one uninterrupted stretch of the program between two      *)
(* blocking input() calls (or process start / process end).  The           *)
(* "timestamp" fields written at lines 129 and 141 are never read by the   *)
(* program and are left out of the document.                               *)
(***************************************************************************)
EXTENDS Integers, Sequences, FiniteSets, TLC

(* ------------------------------ bounds -------------------------------- *)
\* rounds of one session (the loop counter `count`)
MaxRounds == 10
\* record_result calls in one history
MaxRecords == 2
\* process starts in one history
MaxRuns == 2
\* injected I/O errors (failed open, failed write, failed rename) in a history
MaxFaults == 1

(* ------------------------- program constants -------------------------- *)
\* `if count % 5 == 0` (line 312) and `if count % 10 == 0` (line 316)
StatsEvery == 5
ContinueEvery == 10

(* ------------------------------ inputs -------------------------------- *)
\* values of --version
Versions == {"v1", "v2"}
\* dataset files: _load_dataset keeps duplicates and order (line 43)
Datasets == { <<"t1", "t1", "t2">>, << >> }
\* values of --title
SingleTitles == {"t1"}
(* parse_torrent_title (lines 102-112): the parser collaborator is an      *)
(* opaque pure function of the title; which function it is depends on the  *)
(* library under test.  Its answer is kept as an uninterpreted value.      *)
ParseTorrentTitle(t, ver) == <<"parsed", t, ver>>
\* what the operator may type at "Notes about this result: "
NoteInputs == {"wrong year"}

Range(s) == { s[i] : i \in DOMAIN s }

(* ------------------------- the results document ------------------------ *)
\* a mapping with no key
NoKeys == << >>

Put(m, k, v) == [ x \in (DOMAIN m) \cup {k} |-> IF x = k THEN v ELSE m[x] ]

\* _create_new_results
CreateNewResults ==
    [ hasVersions |-> TRUE, hasTitles |-> TRUE, versions |-> NoKeys, titles |-> NoKeys ]

(* json.dump: an object is written as its members; the document becomes   *)
(* the members of "versions" and of "titles" (when the key is there).     *)
JsonDump(d) ==
    [ hasVersions |-> d.hasVersions,
      hasTitles   |-> d.hasTitles,
      versions    |-> { <<v, d.versions[v].tested_count, d.versions[v].correct_count>>
                          : v \in DOMAIN d.versions },
      titles      |-> { <<t, { <<v, d.titles[t][v].is_correct,
                                    d.titles[t][v].parsed_result,
                                    d.titles[t][v].notes>> : v \in DOMAIN d.titles[t] }>>
                          : t \in DOMAIN d.titles } ]

\* JsonLoad reading every "notes" member as the empty string
JsonLoadDropsNotes(j) ==
    [ hasVersions |-> j.hasVersions,
      hasTitles   |-> j.hasTitles,
      versions    |-> [ v \in { m[1] : m \in j.versions } |->
                          LET m == CHOOSE m \in j.versions : m[1] = v
                          IN  [ tested_count |-> m[2], correct_count |-> m[3] ] ],
      titles      |-> [ t \in { m[1] : m \in j.titles } |->
                          LET m == CHOOSE m \in j.titles : m[1] = t
                          IN  [ v \in { e[1] : e \in m[2] } |->
                                  LET e == CHOOSE e \in m[2] : e[1] = v
                                  IN  [ is_correct |-> e[2], parsed_result |-> e[3],
                                        notes |-> "" ] ] ] ]

\* json.load: the members are read back into dicts keyed by member name
JsonLoad(j) ==
    [ hasVersions |-> j.hasVersions,
      hasTitles   |-> j.hasTitles,
      versions    |-> [ v \in { m[1] : m \in j.versions } |->
                          LET m == CHOOSE m \in j.versions : m[1] = v
                          IN  [ tested_count |-> m[2], correct_count |-> m[3] ] ],
      titles      |-> [ t \in { m[1] : m \in j.titles } |->
                          LET m == CHOOSE m \in j.titles : m[1] = t
                          IN  [ v \in { e[1] : e \in m[2] } |->
                                  LET e == CHOOSE e \in m[2] : e[1] = v
                                  IN  [ is_correct |-> e[2], parsed_result |-> e[3],
                                        notes |-> e[4] ] ] ] ]

(* ----------------------- the results path on disk ---------------------- *)
\* kind: "missing"     no file at the path (os.path.exists is false)
\*       "json"        text that json.load parses
\*       "corrupt"     text on which json.load raises JSONDecodeError
\*       "undecodable" bytes that are not UTF-8: reading raises UnicodeDecodeError
NoText == JsonDump(CreateNewResults)
Missing == [ kind |-> "missing", text |-> NoText ]
Garbage == [ kind |-> "corrupt", text |-> NoText ]
Undecodable == [ kind |-> "undecodable", text |-> NoText ]
\* parsable JSON without one or both of the top-level mappings
Shapeless(hv, ht) ==
    [ kind |-> "json",
      text |-> [ hasVersions |-> hv, hasTitles |-> ht, versions |-> {}, titles |-> {} ] ]


(* ------------------------------ ResultStore ---------------------------- *)
\* how one open-and-write of the results path may end
SaveOutcomes == {"ok", "openfail", "writefail"}

(* save_results (lines 78-84): open(path, 'w') truncates the file and      *)
(* json.dump writes the document into it.  A failing open leaves the file  *)
(* as it was; a failing write leaves a truncated text.  Either exception   *)
(* is caught and printed.                                                  *)
SaveResults(doc, f, o) ==
    CASE o = "ok"        -> [ kind |-> "json", text |-> JsonDump(doc) ]
      [] o = "openfail"  -> f
      [] o = "writefail" -> [ kind |-> "corrupt", text |-> JsonDump(doc) ]

\* the file a process leaves when it is killed inside json.dump
TornWrite(doc) == [ kind |-> "corrupt", text |-> JsonDump(doc) ]

\* how os.rename of the results path may end
RenameOutcomes == {"ok", "fail"}

(* _backup_results (lines 68-76): the file is renamed to a timestamped     *)
(* backup path; a failing rename is printed and the file stays in place.   *)
(* Returns the results path and the set of backup files afterwards.        *)
BackupResults(f, b, ro) ==
    IF f.kind = "missing" THEN [ file |-> f, backups |-> b ]
    ELSE IF ro = "ok" THEN [ file |-> Missing, backups |-> b \cup {f} ]
    ELSE [ file |-> f, backups |-> b ]

(* _load_results (lines 48-59).  raised: an exception other than           *)
(* JSONDecodeError left the constructor (the process ends with a           *)
(* traceback); dropped: the corrupt text that was given up, if any.        *)
LoadResults(f, b, ro) ==
    CASE f.kind = "missing" ->
           [ doc |-> CreateNewResults, file |-> f, backups |-> b,
             raised |-> FALSE, dropped |-> {} ]
      [] f.kind = "json" ->
           [ doc |-> JsonLoad(f.text), file |-> f, backups |-> b,
             raised |-> FALSE, dropped |-> {} ]
      [] f.kind = "corrupt" ->
           LET r == BackupResults(f, b, ro)
           IN  [ doc |-> CreateNewResults, file |-> r.file, backups |-> r.backups,
                 raised |-> FALSE, dropped |-> {f} ]
      [] f.kind = "undecodable" ->
           [ doc |-> CreateNewResults, file |-> f, backups |-> b,
             raised |-> TRUE, dropped |-> {} ]

\* lines 125-130: the version entry is created on the first verdict
InitVersionEntry(vs, ver) ==
    IF ver \in DOMAIN vs THEN vs
    ELSE Put(vs, ver, [ tested_count |-> 0, correct_count |-> 0 ])

\* StoreVerdict with the operator's note lost
StoreVerdictNoNotes(ts, t, ver, parsed, ok, notes) ==
    LET old == IF t \in DOMAIN ts THEN ts[t] ELSE NoKeys
    IN  Put(ts, t, Put(old, ver, [ is_correct |-> ok, parsed_result |-> parsed,
                                   notes |-> "" ]))

\* lines 133-142: the verdict is stored under titles[title][version]
StoreVerdict(ts, t, ver, parsed, ok, notes) ==
    LET old == IF t \in DOMAIN ts THEN ts[t] ELSE NoKeys
    IN  Put(ts, t, Put(old, ver, [ is_correct |-> ok, parsed_result |-> parsed,
                                   notes |-> notes ]))

\* UpdateVersionStats with the two counters taken for each other
UpdateVersionStatsSwapped(vs, ver, ok) ==
    [ vs EXCEPT ![ver] = [ tested_count  |-> IF ok THEN @.tested_count + 1
                                             ELSE @.tested_count,
                           correct_count |-> @.correct_count + 1 ] ]

\* UpdateVersionStats counting a verdict only when it is an affirmation
UpdateVersionStatsCorrectOnly(vs, ver, ok) ==
    [ vs EXCEPT ![ver] = [ tested_count  |-> IF ok THEN @.tested_count + 1
                                             ELSE @.tested_count,
                           correct_count |-> IF ok THEN @.correct_count + 1
                                             ELSE @.correct_count ] ]

\* lines 145-147: the version statistics
UpdateVersionStats(vs, ver, ok) ==
    [ vs EXCEPT ![ver] = [ tested_count  |-> @.tested_count + 1,
                           correct_count |-> IF ok THEN @.correct_count + 1
                                             ELSE @.correct_count ] ]

\* RecordResult counting a (title, version) pair only on its first verdict
RecordResultFirstWriteOnly(res, t, ver, parsed, ok, notes) ==
    LET vs  == InitVersionEntry(res.versions, ver)
        new == t \notin DOMAIN res.titles \/ ver \notin DOMAIN res.titles[t]
    IN  [ doc |-> [ res EXCEPT
                      !.titles = StoreVerdict(res.titles, t, ver, parsed, ok, notes),
                      !.versions = IF new THEN UpdateVersionStats(vs, ver, ok) ELSE vs ],
          raised |-> FALSE ]

(* record_result without its trailing save (lines 124-147).  A document    *)
(* without "versions" raises KeyError at line 125 before anything is       *)
(* changed; one without "titles" raises at line 133, after the version     *)
(* entry was created.                                                      *)
RecordResult(res, t, ver, parsed, ok, notes) ==
    IF ~res.hasVersions THEN [ doc |-> res, raised |-> TRUE ]
    ELSE LET vs == InitVersionEntry(res.versions, ver)
         IN  IF ~res.hasTitles
             THEN [ doc |-> [ res EXCEPT !.versions = vs ], raised |-> TRUE ]
             ELSE [ doc |-> [ res EXCEPT
                                !.titles = StoreVerdict(res.titles, t, ver, parsed, ok, notes),
                                !.versions = UpdateVersionStats(vs, ver, ok) ],
                    raised |-> FALSE ]

\* get_previously_tested_titles (lines 152-154): the keys of "titles"
PreviouslyTestedTitles(res) == DOMAIN res.titles

(* ------------------------------- Sampler ------------------------------- *)
\* IsUntested looking only at the title, whatever the version
IsUntestedAnyVersion(res, ver, t) == t \notin DOMAIN res.titles

\* the filter of lines 91-95 and 182-186
IsUntested(res, ver, t) ==
    t \notin DOMAIN res.titles \/ ver \notin DOMAIN res.titles[t]

\* UntestedTitles without the filter: the whole dataset
UntestedTitlesUnfiltered(res, data, ver) == data

\* the list comprehension of lines 91-95: order and duplicates are kept
UntestedTitles(res, data, ver) ==
    SelectSeq(data, LAMBDA t : IsUntested(res, ver, t))

\* "" stands for None, the answer of get_random_untested_title (line 98)
\* when no title is left
NoCandidate == ""

\* GetRandomUntestedTitle drawing from the whole dataset, tested or not
GetRandomTitleUnfiltered(res, data, ver) ==
    IF data = << >> THEN {NoCandidate} ELSE Range(data)

(* get_random_untested_title (lines 86-100): the set of values the call    *)
(* may return.  random.choice may pick any element.                        *)
GetRandomUntestedTitle(res, data, ver) ==
    IF UntestedTitles(res, data, ver) = << >> THEN {NoCandidate}
    ELSE Range(UntestedTitles(res, data, ver))

\* random.shuffle (line 253): every ordering of the list
RECURSIVE Shuffles(_)
Shuffles(S) ==
    IF S = {} THEN { << >> }
    ELSE UNION { { <<x>> \o q : q \in Shuffles(S \ {x}) } : x \in S }

(* ----------------------------- StatsReporter --------------------------- *)
NoStats ==
    [ printed |-> FALSE, raised |-> FALSE, total |-> 0, any |-> 0, tested |-> 0,
      correct |-> 0, hasAccuracy |-> FALSE, accuracy |-> 0, untested |-> 0 ]

\* Accuracy with the quotient taken the other way round
AccuracyInverted(correct, tested) ==
    IF correct = 0 THEN 0 ELSE (tested * 100) \div correct

\* line 179: (correct / tested) * 100, kept as a whole percentage
Accuracy(correct, tested) == (correct * 100) \div tested

\* PrintStatistics with the untested count taken by subtraction
PrintStatisticsBySubtraction(res, data, ver) ==
    IF data = << >> THEN NoStats
    ELSE IF ~res.hasVersions \/ ~res.hasTitles THEN [ NoStats EXCEPT !.raised = TRUE ]
    ELSE LET seen    == ver \in DOMAIN res.versions
             tested  == IF seen THEN res.versions[ver].tested_count ELSE 0
             correct == IF seen THEN res.versions[ver].correct_count ELSE 0
         IN  [ printed     |-> TRUE,
               raised      |-> FALSE,
               total       |-> Len(data),
               any         |-> Cardinality(DOMAIN res.titles),
               tested      |-> tested,
               correct     |-> correct,
               hasAccuracy |-> tested > 0,
               accuracy    |-> IF tested > 0 THEN Accuracy(correct, tested) ELSE 0,
               untested    |-> Len(data) - tested ]

(* print_statistics (lines 156-188): what one call prints.  Nothing is     *)
(* printed without a dataset (line 158); a document without "versions" or  *)
(* "titles" raises KeyError at line 165 or 170.                            *)
PrintStatistics(res, data, ver) ==
    IF data = << >> THEN NoStats
    ELSE IF ~res.hasVersions \/ ~res.hasTitles THEN [ NoStats EXCEPT !.raised = TRUE ]
    ELSE LET seen    == ver \in DOMAIN res.versions
             tested  == IF seen THEN res.versions[ver].tested_count ELSE 0
             correct == IF seen THEN res.versions[ver].correct_count ELSE 0
         IN  [ printed     |-> TRUE,
               raised      |-> FALSE,
               total       |-> Len(data),
               any         |-> Cardinality(DOMAIN res.titles),
               tested      |-> tested,
               correct     |-> correct,
               hasAccuracy |-> tested > 0,
               accuracy    |-> IF tested > 0 THEN Accuracy(correct, tested) ELSE 0,
               untested    |-> Len(UntestedTitles(res, data, ver)) ]


(* ------------------------------- the state ----------------------------- *)
VARIABLES
    file,             \* the file at the results path
    backups,          \* the files under the backup paths
    results,          \* tester.results, the in-memory document
    library_version,  \* tester.library_version
    torrent_titles,   \* tester.torrent_titles
    mode,             \* "fresh", "retest" (interactive_testing), "single", "stats"
    pc,               \* where the process is (see Prompts and Ended)
    titles_to_test,   \* the retest queue (line 249)
    count,            \* the loop counter (line 257)
    title,            \* the title on display
    parsed_result,    \* the parser's answer on display
    stats,            \* what the last print_statistics call printed
    shutdown,         \* the calls made by the finally block (lines 324-327)
    lastSave,         \* how the last save_results call of the process ended
    writes,           \* record_result calls that returned in this process
    snapshots,        \* periodic statistics printed in this session (line 313)
    asked,            \* continue prompts shown in this session (line 317)
    parses,           \* parse_torrent_title calls made by this process
    written,          \* record_result calls that changed the document, all processes
    loaded,           \* the document the constructor obtained
    prev,             \* the in-memory document of the previous process at its end
    dropped,          \* the corrupt texts that _load_results gave up
    runs,             \* processes started
    faults            \* I/O errors injected

vars == << file, backups, results, library_version, torrent_titles, mode, pc,
           titles_to_test, count, title, parsed_result, stats, shutdown, lastSave,
           writes, snapshots, asked, parses, written, loaded, prev, dropped, runs,
           faults >>

\* the process blocks in input()
Prompts == {"begin", "await", "notes", "continue"}
\* the process has ended: the three exits of the session, the return of the
\* single-title and statistics modes, an uncaught exception, a kill
Ended == {"done", "quit", "interrupted", "returned", "crashed", "killed"}

NoParse == <<"parsed", "", "">>

Cost(o) == IF o \in {"ok"} THEN 0 ELSE 1

\* the stores a first process may find at the results path
InitialStores ==
    { Missing, Garbage, Undecodable,
      Shapeless(FALSE, FALSE), Shapeless(TRUE, FALSE), Shapeless(FALSE, TRUE) }

InitWith(f) ==
    /\ file = f
    /\ backups = {}
    /\ results = CreateNewResults
    /\ library_version = "v1"
    /\ torrent_titles = << >>
    /\ mode = "stats"
    /\ pc = "idle"
    /\ titles_to_test = << >>
    /\ count = 0
    /\ title = NoCandidate
    /\ parsed_result = NoParse
    /\ stats = NoStats
    /\ shutdown = << >>
    /\ lastSave = "none"
    /\ writes = 0
    /\ snapshots = 0
    /\ asked = 0
    /\ parses = 0
    /\ written = 0
    /\ loaded = CreateNewResults
    /\ prev = CreateNewResults
    /\ dropped = {}
    /\ runs = 0
    /\ faults = 0

\* no file at the results path: the history starts from an empty document
Init == InitWith(Missing)

\* any store at the results path
InitAnyStore == \E f \in InitialStores : InitWith(f)

(* ------------------------------- Session ------------------------------- *)
\* EndSession without the finally block: the cleanup follows the loop and an
\* interrupt passes it by
EndSessionNoFinally(how, res, f, o) ==
    LET st == PrintStatistics(res, torrent_titles, library_version)
    IN  /\ file' = IF how = "interrupted" THEN f ELSE SaveResults(res, f, o)
        /\ lastSave' = IF how = "interrupted" THEN lastSave ELSE o
        /\ stats' = IF how = "interrupted" THEN stats ELSE st
        /\ shutdown' = IF how = "interrupted" THEN << >> ELSE <<"save", "report">>
        /\ pc' = IF st.raised THEN "crashed" ELSE how
        /\ UNCHANGED parses
        /\ title' = NoCandidate
        /\ parsed_result' = NoParse

(* The finally block (lines 324-327) after the loop was left by `how`:     *)
(* save_results, then print_statistics.  An exception that left the try    *)
(* body, or one raised by print_statistics, ends the process.  The locals  *)
(* title and parsed_result are gone when the function returns.             *)
EndSession(how, res, f, o) ==
    LET st == PrintStatistics(res, torrent_titles, library_version)
    IN  /\ file' = SaveResults(res, f, o)
        /\ lastSave' = o
        /\ stats' = st
        /\ shutdown' = <<"save", "report">>
        /\ pc' = IF st.raised THEN "crashed" ELSE how
        /\ UNCHANGED parses
        /\ title' = NoCandidate
        /\ parsed_result' = NoParse

\* lines 271-288: the title is parsed once, shown, and the verdict prompt waits;
\* f, st and ls are the results path, the statistics printed last and the
\* outcome of the last save so far
Present(t, f, st, ls) ==
    /\ title' = t
    /\ parsed_result' = ParseTorrentTitle(t, library_version)
    /\ parses' = parses + 1
    /\ pc' = "await"
    /\ file' = f
    /\ stats' = st
    /\ lastSave' = ls
    /\ UNCHANGED shutdown

\* NextRound drawing the next retest title at random from the queue in place
\* of taking the one at the pointer
NextRoundRandomRetest(res, cnt, f, st, ls, o) ==
    IF mode = "retest"
    THEN IF cnt >= Len(titles_to_test)
         THEN EndSession("done", res, f, o)
         ELSE /\ o = "ok"
              /\ \E t \in Range(titles_to_test) : Present(t, f, st, ls)
    ELSE IF torrent_titles # << >> /\ ~res.hasTitles
         THEN EndSession("crashed", res, f, o)
         ELSE \E t \in GetRandomUntestedTitle(res, torrent_titles, library_version) :
                IF t = NoCandidate
                THEN EndSession("done", res, f, o)
                ELSE o = "ok" /\ Present(t, f, st, ls)

(* The top of the loop (lines 258-269) with document res and counter cnt;  *)
(* o is the outcome of the final save when the loop is left here.          *)
NextRound(res, cnt, f, st, ls, o) ==
    IF mode = "retest"
    THEN IF cnt >= Len(titles_to_test)
         THEN EndSession("done", res, f, o)
         ELSE o = "ok" /\ Present(titles_to_test[cnt + 1], f, st, ls)
    ELSE IF torrent_titles # << >> /\ ~res.hasTitles
         THEN EndSession("crashed", res, f, o)
         ELSE \E t \in GetRandomUntestedTitle(res, torrent_titles, library_version) :
                IF t = NoCandidate
                THEN EndSession("done", res, f, o)
                ELSE o = "ok" /\ Present(t, f, st, ls)

(* Lines 309-320 after record_result returned: the counter, the periodic   *)
(* statistics, the continue prompt, else the next round.                   *)
AfterRecord(res, f, ls, o) ==
    LET cnt == count + 1
        st  == IF cnt % StatsEvery = 0
               THEN PrintStatistics(res, torrent_titles, library_version)
               ELSE stats
    IN  /\ count' = cnt
        /\ snapshots' = IF cnt % StatsEvery = 0 THEN snapshots + 1 ELSE snapshots
        /\ asked' = IF cnt % ContinueEvery = 0 THEN asked + 1 ELSE asked
        /\ IF cnt % ContinueEvery = 0
           THEN /\ o = "ok"
                /\ pc' = "continue"
                /\ file' = f
                /\ stats' = st
                /\ lastSave' = ls
                /\ UNCHANGED << title, parsed_result, shutdown, parses >>
           ELSE NextRound(res, cnt, f, st, ls, o)

\* RecordAndGoOn with a failing save of record_result ending the loop: the
\* exception is let through to the finally block and out of the process
RecordAndGoOnFatalSave(ok, notes, o1, o2) ==
    LET r == RecordResult(results, title, library_version, parsed_result, ok, notes)
    IN  /\ faults + Cost(o1) + Cost(o2) <= MaxFaults
        /\ results' = r.doc
        /\ IF r.raised
           THEN /\ o1 = "ok"
                /\ EndSession("crashed", r.doc, file, o2)
                /\ UNCHANGED << count, writes, written, snapshots, asked >>
           ELSE /\ writes' = writes + 1
                /\ written' = written + 1
                /\ IF o1 = "ok"
                   THEN AfterRecord(r.doc, SaveResults(r.doc, file, o1), o1, o2)
                   ELSE /\ EndSession("crashed", r.doc, SaveResults(r.doc, file, o1), o2)
                        /\ UNCHANGED << count, snapshots, asked >>
        /\ faults' = faults + Cost(o1) + Cost(o2)

(* record_result with its save (line 150, outcome o1) as called at line    *)
(* 307, and what follows it in the loop; o2 is the outcome of the final    *)
(* save if the session ends in this step.                                  *)
RecordAndGoOn(ok, notes, o1, o2) ==
    LET r == RecordResult(results, title, library_version, parsed_result, ok, notes)
    IN  /\ faults + Cost(o1) + Cost(o2) <= MaxFaults
        /\ results' = r.doc
        /\ IF r.raised
           THEN /\ o1 = "ok"
                /\ EndSession("crashed", r.doc, file, o2)
                /\ UNCHANGED << count, writes, written, snapshots, asked >>
           ELSE /\ writes' = writes + 1
                /\ written' = written + 1
                /\ AfterRecord(r.doc, SaveResults(r.doc, file, o1), o1, o2)
        /\ faults' = faults + Cost(o1) + Cost(o2)

\* RecordAndReturn storing the answer of a second parser call, made after the
\* verdict, in place of the answer that was displayed
RecordAndReturnReparsed(ok, notes, o1) ==
    LET r == RecordResult(results, title, library_version,
                          <<"parsed again", title, library_version>>, ok, notes)
    IN  /\ faults + Cost(o1) <= MaxFaults
        /\ results' = r.doc
        /\ pc' = "returned"
        /\ file' = SaveResults(r.doc, file, o1)
        /\ lastSave' = o1
        /\ writes' = writes + 1
        /\ written' = written + 1
        /\ parses' = parses + 1
        /\ faults' = faults + Cost(o1)
        /\ UNCHANGED << count, title, parsed_result, stats, shutdown, snapshots, asked >>

(* record_result as called at line 236 by parse_single_title, which then   *)
(* returns: no finally block, no statistics.                               *)
RecordAndReturn(ok, notes, o1) ==
    LET r == RecordResult(results, title, library_version, parsed_result, ok, notes)
    IN  /\ faults + Cost(o1) <= MaxFaults
        /\ results' = r.doc
        /\ IF r.raised
           THEN /\ o1 = "ok"
                /\ pc' = "crashed"
                /\ UNCHANGED << file, lastSave, writes, written >>
           ELSE /\ pc' = "returned"
                /\ file' = SaveResults(r.doc, file, o1)
                /\ lastSave' = o1
                /\ writes' = writes + 1
                /\ written' = written + 1
        /\ faults' = faults + Cost(o1)
        /\ UNCHANGED << count, title, parsed_result, stats, shutdown, snapshots, asked,
                        parses >>

\* what no step of a running process changes
UNCHANGED_process == UNCHANGED << library_version, torrent_titles, mode, titles_to_test,
                                  loaded, prev, dropped, runs, backups >>

\* a verdict may still be counted within the bounds of the model
MayRecord ==
    /\ count < MaxRounds
    /\ written < MaxRecords

(* ------------------------------ operator input ------------------------- *)
\* 'y' or '' at the verdict prompt (lines 299-307, 228-236)
Affirm ==
    /\ pc = "await"
    /\ MayRecord
    /\ IF mode = "single"
       THEN \E o1 \in SaveOutcomes : RecordAndReturn(TRUE, "", o1)
       ELSE \E o1, o2 \in SaveOutcomes : RecordAndGoOn(TRUE, "", o1, o2)
    /\ UNCHANGED_process

\* 'n' at the verdict prompt: the notes prompt follows (lines 303-304, 232-233)
Deny ==
    /\ pc = "await"
    /\ MayRecord
    /\ pc' = "notes"
    /\ UNCHANGED << file, results, count, title, parsed_result, stats, shutdown,
                    lastSave, writes, written, faults, snapshots, asked, parses >>
    /\ UNCHANGED_process

\* the line typed at the notes prompt (lines 304-307, 233-236)
Notes ==
    /\ pc = "notes"
    /\ \E n \in NoteInputs :
         IF mode = "single"
         THEN \E o1 \in SaveOutcomes : RecordAndReturn(FALSE, n, o1)
         ELSE \E o1, o2 \in SaveOutcomes : RecordAndGoOn(FALSE, n, o1, o2)
    /\ UNCHANGED_process

\* Skip storing a verdict for the skipped title
SkipRecords ==
    /\ pc = "await"
    /\ MayRecord
    /\ IF mode = "single"
       THEN \E o1 \in SaveOutcomes : RecordAndReturn(FALSE, "", o1)
       ELSE \E o1, o2 \in SaveOutcomes : RecordAndGoOn(FALSE, "", o1, o2)
    /\ UNCHANGED_process

\* 's' at the verdict prompt (lines 294-297, 224-226)
Skip ==
    /\ pc = "await"
    /\ IF mode = "single"
       THEN /\ pc' = "returned"
            /\ UNCHANGED << file, count, title, parsed_result, stats, shutdown,
                            lastSave, faults, parses >>
       ELSE /\ count < MaxRounds
            /\ count' = count + 1
            /\ \E o \in SaveOutcomes :
                 /\ faults + Cost(o) <= MaxFaults
                 /\ NextRound(results, count + 1, file, stats, lastSave, o)
                 /\ faults' = faults + Cost(o)
    /\ UNCHANGED << results, writes, written, snapshots, asked >>
    /\ UNCHANGED_process

\* 'q' at the verdict prompt (lines 290-292, 220-222)
Quit ==
    /\ pc = "await"
    /\ IF mode = "single"
       THEN /\ pc' = "returned"
            /\ UNCHANGED << file, title, parsed_result, stats, shutdown, lastSave, faults,
                            parses >>
       ELSE \E o \in SaveOutcomes :
              /\ faults + Cost(o) <= MaxFaults
              /\ EndSession("quit", results, file, o)
              /\ faults' = faults + Cost(o)
    /\ UNCHANGED << results, count, writes, written, snapshots, asked >>
    /\ UNCHANGED_process

\* the answer at "Continue testing? (Y/n): " (lines 317-320)
Continue ==
    /\ pc = "continue"
    /\ \E yes \in BOOLEAN, o \in SaveOutcomes :
         /\ faults + Cost(o) <= MaxFaults
         /\ IF yes
            THEN NextRound(results, count, file, stats, lastSave, o)
            ELSE EndSession("quit", results, file, o)
         /\ faults' = faults + Cost(o)
    /\ UNCHANGED << results, count, writes, written, snapshots, asked >>
    /\ UNCHANGED_process

(* Ctrl-C while input() waits.  In interactive_testing the exception is    *)
(* caught at line 322 and the finally block runs; at the "Press Enter"     *)
(* prompt (line 376) and in parse_single_title nothing catches it.         *)
Interrupt ==
    /\ pc \in Prompts
    /\ IF mode \in {"fresh", "retest"} /\ pc # "begin"
       THEN \E o \in SaveOutcomes :
              /\ faults + Cost(o) <= MaxFaults
              /\ EndSession("interrupted", results, file, o)
              /\ faults' = faults + Cost(o)
       ELSE /\ pc' = "crashed"
            /\ UNCHANGED << file, title, parsed_result, stats, shutdown, lastSave, faults,
                            parses >>
    /\ UNCHANGED << results, count, writes, written, snapshots, asked >>
    /\ UNCHANGED_process


(* ------------------------------ process start -------------------------- *)
\* the values of --version a new process may be given; while no process has run
\* the version identifiers are interchangeable, so the first one is given "v1"
LaunchVersions == IF runs = 0 THEN {"v1"} ELSE Versions

(* TorrentTester.__init__ (lines 32-36) in a new process: the previous one *)
(* has ended and its memory is gone.  ro is the outcome of the rename in   *)
(* _backup_results, which runs only for a corrupt file.                    *)
Construct(ver, data, ro) ==
    LET l == LoadResults(file, backups, ro)
    IN  /\ pc \in Ended \cup {"idle"}
        /\ runs < MaxRuns
        /\ IF file.kind = "corrupt" THEN faults + Cost(ro) <= MaxFaults ELSE ro = "ok"
        /\ runs' = runs + 1
        /\ faults' = faults + Cost(ro)
        /\ prev' = results
        /\ results' = l.doc
        /\ loaded' = l.doc
        /\ file' = l.file
        /\ backups' = l.backups
        /\ dropped' = dropped \cup l.dropped
        /\ library_version' = ver
        /\ torrent_titles' = data
        /\ titles_to_test' = << >>
        /\ count' = 0
        /\ shutdown' = << >>
        /\ lastSave' = "none"
        /\ writes' = 0
        /\ snapshots' = 0
        /\ asked' = 0
        /\ UNCHANGED written

\* main with a dataset (lines 354, 366-376): up to "Press Enter to begin testing..."
StartInteractive ==
    \E ver \in LaunchVersions, data \in Datasets, retest \in BOOLEAN, ro \in RenameOutcomes :
        /\ Construct(ver, data, ro)
        /\ mode' = IF retest THEN "retest" ELSE "fresh"
        /\ pc' = IF LoadResults(file, backups, ro).raised THEN "crashed" ELSE "begin"
        /\ parses' = 0
        /\ title' = NoCandidate
        /\ parsed_result' = NoParse
        /\ stats' = NoStats

\* main with --title (lines 357-359) and parse_single_title up to its prompt
\* (lines 201-215) or, without --save, to its end
StartSingle ==
    \E ver \in LaunchVersions, t \in SingleTitles, save \in BOOLEAN, ro \in RenameOutcomes :
        /\ Construct(ver, << >>, ro)
        /\ mode' = "single"
        /\ stats' = NoStats
        /\ IF LoadResults(file, backups, ro).raised
           THEN /\ pc' = "crashed"
                /\ title' = NoCandidate
                /\ parsed_result' = NoParse
                /\ parses' = 0
           ELSE /\ pc' = IF save THEN "await" ELSE "returned"
                /\ parses' = 1
                /\ title' = t
                /\ parsed_result' = ParseTorrentTitle(t, ver)

\* main with --stats (lines 362-364)
StartStats ==
    \E ver \in LaunchVersions, data \in Datasets, ro \in RenameOutcomes :
        LET l  == LoadResults(file, backups, ro)
            st == PrintStatistics(l.doc, data, ver)
        IN  /\ Construct(ver, data, ro)
            /\ mode' = "stats"
            /\ parses' = 0
            /\ title' = NoCandidate
            /\ parsed_result' = NoParse
            /\ stats' = IF l.raised THEN NoStats ELSE st
            /\ pc' = IF l.raised \/ st.raised THEN "crashed" ELSE "returned"

(* Enter at "Press Enter to begin testing..." (line 376), then             *)
(* interactive_testing up to its first prompt or its end (lines 247-288).  *)
Begin ==
    /\ pc = "begin"
    /\ count' = 0
    /\ \E o \in SaveOutcomes :
         /\ faults + Cost(o) <= MaxFaults
         /\ faults' = faults + Cost(o)
         /\ IF mode = "retest"
            THEN IF ~results.hasTitles
                 THEN /\ EndSession("crashed", results, file, o)
                      /\ titles_to_test' = << >>
                 ELSE IF PreviouslyTestedTitles(results) = {}
                 THEN /\ EndSession("done", results, file, o)
                      /\ titles_to_test' = << >>
                 ELSE /\ o = "ok"
                      /\ titles_to_test' \in Shuffles(PreviouslyTestedTitles(results))
                      /\ Present(titles_to_test'[1], file, stats, lastSave)
            ELSE /\ titles_to_test' = << >>
                 /\ NextRound(results, 0, file, stats, lastSave, o)
    /\ UNCHANGED << results, writes, written, snapshots, asked, library_version, torrent_titles, mode, loaded, prev,
                    dropped, runs, backups >>

(* -------------------------- abrupt termination ------------------------- *)
\* the memory of a killed process is gone: only the document it held is kept
\* (as a record of what the operator had entered)
Killed ==
    /\ pc' = "killed"
    /\ count' = 0
    /\ title' = NoCandidate
    /\ parsed_result' = NoParse
    /\ stats' = NoStats
    /\ shutdown' = << >>
    /\ lastSave' = "none"
    /\ snapshots' = 0
    /\ asked' = 0
    /\ parses' = 0
    /\ UNCHANGED << writes, faults >>
    /\ UNCHANGED_process

\* the process is killed (SIGKILL, power loss) while input() waits
KillAtPrompt ==
    /\ pc \in Prompts
    /\ Killed
    /\ UNCHANGED << file, results, written >>

(* The operator gives a verdict and the process is killed inside the save  *)
(* of record_result (line 150 -> lines 81-82): open(path, 'w') has         *)
(* truncated the file and json.dump has written part of the text.          *)
KillInRecordSave ==
    /\ \/ pc = "await" /\ MayRecord
       \/ pc = "notes"
    /\ \E ok \in BOOLEAN, n \in NoteInputs :
         LET r == RecordResult(results, title, library_version, parsed_result, ok, n)
         IN  /\ pc = "await" => ok /\ n = ""
             /\ pc = "notes" => ~ok
             /\ ~r.raised
             /\ results' = r.doc
             /\ file' = TornWrite(r.doc)
    /\ written' = written + 1
    /\ Killed

\* the session is left at a prompt (quit, Ctrl-C, a negative answer) and the
\* process is killed inside the save of the finally block (line 326)
KillInFinalSave ==
    /\ pc \in {"await", "notes", "continue"}
    /\ mode \in {"fresh", "retest"}
    /\ file' = TornWrite(results)
    /\ Killed
    /\ UNCHANGED << results, written >>

(* ---------------------------- specifications --------------------------- *)
Next ==
    \/ StartInteractive
    \/ StartSingle
    \/ StartStats
    \/ Begin
    \/ Affirm
    \/ Deny
    \/ Notes
    \/ Skip
    \/ Quit
    \/ Continue
    \/ Interrupt
    \/ KillAtPrompt
    \/ KillInRecordSave
    \/ KillInFinalSave

\* histories that start with no file at the results path
Spec == Init /\ [][Next]_vars

\* histories that start with any store at the results path
SpecAnyStore == InitAnyStore /\ [][Next]_vars

\* main with a dataset and without --retest
StartFresh ==
    /\ StartInteractive
    /\ mode' = "fresh"

NextFresh ==
    \/ StartFresh
    \/ Begin
    \/ Affirm
    \/ Deny
    \/ Notes
    \/ Skip
    \/ Quit
    \/ Continue
    \/ Interrupt
    \/ KillAtPrompt
    \/ KillInRecordSave
    \/ KillInFinalSave

\* histories of fresh-mode sessions only, from no file at the results path
SpecFresh == Init /\ [][NextFresh]_vars

\* a positive answer at "Continue testing? (Y/n): " (line 318: '' or 'y')
ContinueYes ==
    /\ Continue
    /\ pc' # "quit"

NextAnswering ==
    \/ StartFresh
    \/ Begin
    \/ Affirm
    \/ Deny
    \/ Notes
    \/ Skip
    \/ ContinueYes

(* Fresh-mode sessions with an operator who answers: Enter at the first    *)
(* prompt, a verdict at every verdict prompt (a skip may come before it),  *)
(* a line at every notes prompt, yes at every continue prompt; no quit, no *)
(* Ctrl-C, no kill.  input() returns once a line is typed, and between two *)
(* prompts the program runs on its own.                                    *)
SpecAnswering ==
    /\ Init
    /\ [][NextAnswering]_vars
    /\ WF_vars(Begin)
    /\ WF_vars(Affirm \/ Deny)
    /\ WF_vars(Notes)
    /\ WF_vars(ContinueYes)


(* ------------------------------- properties ---------------------------- *)
TestedCount(res, v) ==
    IF v \in DOMAIN res.versions THEN res.versions[v].tested_count ELSE 0

CorrectCount(res, v) ==
    IF v \in DOMAIN res.versions THEN res.versions[v].correct_count ELSE 0

\* the (title, version) pairs that have a verdict
Pairs(res) ==
    { p \in (DOMAIN res.titles) \X Versions : p[2] \in DOMAIN res.titles[p[1]] }

HasVerdict(res, t, v) == t \in DOMAIN res.titles /\ v \in DOMAIN res.titles[t]

\* a step in which one record_result call returned
RecordStep == writes' = writes + 1

(* C1: every record_result call that returns leaves its title among the    *)
(* previously tested titles and makes tested_count of the version exactly  *)
(* 1 larger than before (from 0 when the version had no entry), also when  *)
(* titles[title][version] existed already.                                 *)
C1_RecordCounts ==
    [][ RecordStep =>
          /\ title \in PreviouslyTestedTitles(results')
          /\ HasVerdict(results', title, library_version)
          /\ TestedCount(results', library_version)
               = TestedCount(results, library_version) + 1 ]_vars

\* C1 witness: a pair was recorded twice (one title, counted twice)
C1_Witness ==
    \E v \in Versions :
        /\ TestedCount(results, v) = 2
        /\ Cardinality({ p \in Pairs(results) : p[2] = v }) = 1

(* C2 as claimed: recording a verdict for a (title, version) pair that     *)
(* already has one overwrites it and leaves the counters of the version    *)
(* as they were.                                                           *)
C2_NoSecondCount ==
    [][ (RecordStep /\ HasVerdict(results, title, library_version)) =>
          /\ Cardinality(Pairs(results')) = Cardinality(Pairs(results))
          /\ results'.versions = results.versions ]_vars

\* in every version entry 0 <= correct_count <= tested_count
CountsOrdered(res) ==
    \A v \in DOMAIN res.versions :
        /\ 0 <= res.versions[v].correct_count
        /\ res.versions[v].correct_count <= res.versions[v].tested_count

(* C3: from an empty store, every document the program holds has           *)
(* 0 <= correct_count <= tested_count for each version, and no step of a   *)
(* running process (record, skip, quit, save, report, interrupt) removes a *)
(* version entry or lowers one of its counters.                            *)
C3_CountersMonotone ==
    [][ /\ CountsOrdered(results')
        /\ pc \in Prompts =>
             \A v \in DOMAIN results.versions :
                 /\ v \in DOMAIN results'.versions
                 /\ results'.versions[v].tested_count >= results.versions[v].tested_count
                 /\ results'.versions[v].correct_count >= results.versions[v].correct_count
      ]_vars

\* C3 witness: a version with two verdicts, one of them correct
C3_Witness ==
    \E v \in DOMAIN results.versions :
        results.versions[v].tested_count = 2 /\ results.versions[v].correct_count = 1

(* C4: a record_result call adds exactly 1 to correct_count for an         *)
(* affirmed title and nothing for a denied one, and the denied verdict     *)
(* carries the note the operator typed.                                    *)
C4_CorrectCount ==
    [][ RecordStep =>
          LET v == results'.titles[title][library_version]
          IN  IF pc = "await"
              THEN /\ v.is_correct /\ v.notes = ""
                   /\ CorrectCount(results', library_version)
                        = CorrectCount(results, library_version) + 1
              ELSE /\ ~v.is_correct /\ v.notes \in NoteInputs
                   /\ CorrectCount(results', library_version)
                        = CorrectCount(results, library_version) ]_vars

\* C4 witness: the first verdict of a version is a denial with a note
C4_Witness ==
    \E v \in DOMAIN results.versions, t \in DOMAIN results.titles :
        /\ results.versions[v].tested_count = 1
        /\ results.versions[v].correct_count = 0
        /\ v \in DOMAIN results.titles[t]
        /\ results.titles[t][v].notes = "wrong year"

\* every dataset title has a verdict for the current version
AllTested == \A u \in Range(torrent_titles) : HasVerdict(results, u, library_version)

(* C5: get_random_untested_title returns only dataset titles without a     *)
(* verdict for the current version, and returns None exactly when every    *)
(* dataset title has one; so the title on display in a fresh session is    *)
(* untested and a fresh session is done only when all are tested.          *)
C5_PickUntested ==
    /\ \A t \in GetRandomUntestedTitle(results, torrent_titles, library_version) :
           /\ t # NoCandidate =>
                t \in Range(torrent_titles) /\ ~HasVerdict(results, t, library_version)
           /\ t = NoCandidate <=> AllTested
    /\ (mode = "fresh" /\ pc = "await") =>
           title \in Range(torrent_titles) /\ ~HasVerdict(results, title, library_version)
    /\ (mode = "fresh" /\ pc = "done") => AllTested

\* C5 witness: a fresh session over the dataset is done, all its titles tested
C5_Witness ==
    /\ mode = "fresh" /\ pc = "done"
    /\ torrent_titles # << >>
    /\ AllTested

\* the three exits of interactive_testing
SessionExits == {"done", "quit", "interrupted"}

(* C6: on each exit of the session (done, quit, interrupted) the finally   *)
(* block has called save_results and then print_statistics; the report is  *)
(* printed when there is a dataset, and when that save succeeded the file  *)
(* holds the in-memory document, which has the loaded verdict count plus   *)
(* one per verdict recorded in the session.                                *)
C6_FinalSaveAndReport ==
    pc \in SessionExits =>
        /\ shutdown = <<"save", "report">>
        /\ torrent_titles # << >> => stats.printed
        /\ lastSave = "ok" => file.kind = "json" /\ JsonLoad(file.text) = results
        /\ TestedCount(results, library_version)
             = TestedCount(loaded, library_version) + writes

\* C6 witness: an interrupt after two recorded verdicts, both in the file
C6_Witness ==
    /\ pc = "interrupted"
    /\ writes = 2
    /\ file.kind = "json"
    /\ Cardinality(Pairs(JsonLoad(file.text))) = 2

\* the verdicts of document a that document b does not hold
MissingVerdicts(a, b) ==
    { p \in Pairs(a) : ~HasVerdict(b, p[1], p[2]) \/ b.titles[p[1]][p[2]] # a.titles[p[1]][p[2]] }

(* C7 as claimed: without any I/O error, whatever way the previous process *)
(* ended (a kill inside a save included), the document the next process    *)
(* loads lacks at most one verdict of the document the previous one held.  *)
C7_AtMostOneLost ==
    (runs >= 2 /\ faults = 0) => Cardinality(MissingVerdicts(prev, loaded)) <= 1

(* C8: a skip or a quit at the verdict prompt leaves the in-memory         *)
(* document as it is and records nothing; a skip goes on to the next       *)
(* round (or to the end when no title is left), a quit ends the session.   *)
C8_SkipQuitFrame ==
    [][ /\ Skip => /\ results' = results
                   /\ writes' = writes
                   /\ pc' \in (IF mode = "single" THEN {"returned"} ELSE {"await", "done"})
        /\ Quit => /\ results' = results
                   /\ writes' = writes
                   /\ pc' = (IF mode = "single" THEN "returned" ELSE "quit") ]_vars

\* C8 witness: the session quit after a skipped round, nothing recorded
C8_Witness ==
    /\ pc = "quit"
    /\ count = 1
    /\ writes = 0
    /\ results = loaded

(* C11: a failing save is not fatal.  A step in which record_result        *)
(* returns keeps the verdict and its count in the in-memory document and   *)
(* leaves the process where the control flow alone puts it, whatever the   *)
(* outcome of the save (single title: returned; a multiple of 10: the      *)
(* continue prompt; otherwise the next title, or the end when there is     *)
(* none); and every save that succeeds writes the whole in-memory          *)
(* document.                                                               *)
C11_AfterRecord ==
    IF mode = "single" THEN "returned"
    ELSE IF (count + 1) % ContinueEvery = 0 THEN "continue"
    ELSE IF mode = "retest"
         THEN IF count + 1 >= Len(titles_to_test) THEN "done" ELSE "await"
         ELSE IF UntestedTitles(results', torrent_titles, library_version) = << >>
              THEN "done" ELSE "await"

C11_SaveFailureNonFatal ==
    [][ /\ RecordStep =>
             /\ HasVerdict(results', title, library_version)
             /\ TestedCount(results', library_version)
                  = TestedCount(results, library_version) + 1
             /\ \A t \in DOMAIN results.titles : t \in DOMAIN results'.titles
             /\ pc' = C11_AfterRecord
        /\ lastSave' = "ok" => file' = [ kind |-> "json", text |-> JsonDump(results') ]
      ]_vars

\* C11 witness: the save of the first verdict failed half-way, the verdict is
\* in memory and the session shows the next title
C11_Witness ==
    /\ pc = "await"
    /\ mode = "fresh"
    /\ lastSave = "writefail"
    /\ file.kind = "corrupt"
    /\ writes = 1
    /\ TestedCount(results, library_version) >= 1

C13_ReportSound(st, res, ver) ==
    st.printed =>
        /\ st.tested = TestedCount(res, ver)
        /\ st.correct = CorrectCount(res, ver)
        /\ st.hasAccuracy <=> st.tested > 0
        /\ st.hasAccuracy =>
              /\ st.accuracy = (st.correct * 100) \div st.tested
              /\ st.accuracy >= 0
              /\ st.accuracy <= 100

(* C13: print_statistics computes the accuracy only when tested_count of   *)
(* the version is greater than 0 (an unseen version counts as 0), the      *)
(* accuracy then is correct_count*100/tested_count and lies in [0, 100],   *)
(* and a report changes nothing in the document: a step that prints a      *)
(* report without recording a verdict leaves the document as it was.       *)
C13_Accuracy ==
    /\ [] C13_ReportSound(PrintStatistics(results, torrent_titles, library_version),
                          results, library_version)
    /\ [][ /\ (stats' # stats /\ stats'.printed) =>
                C13_ReportSound(stats', results', library_version')
           /\ (stats'.printed /\ stats' # stats /\ ~RecordStep /\ runs' = runs) =>
                results' = results
           /\ (stats'.printed /\ runs' = runs + 1) => results' = loaded' ]_vars

\* C13 witness: a report with one correct verdict out of two, 50 per cent
C13_Witness ==
    /\ stats.printed
    /\ stats.hasAccuracy
    /\ stats.tested = 2
    /\ stats.correct = 1
    /\ stats.accuracy = 50

\* the report print_statistics would print in the current state
C14_Report == PrintStatistics(results, torrent_titles, library_version)

\* the dataset entries (duplicates counted) with a verdict for the version
C14_TestedEntries ==
    { i \in DOMAIN torrent_titles : HasVerdict(results, torrent_titles[i], library_version) }

(* C14 as claimed: in every reachable state the untested count of the      *)
(* report equals the size of the dataset minus tested_count of the         *)
(* version, and it is 0 once every dataset title has a verdict.            *)
C14_UntestedBySubtraction ==
    C14_Report.printed =>
        /\ C14_Report.untested = C14_Report.total - C14_Report.tested
        /\ C14_TestedEntries = DOMAIN torrent_titles => C14_Report.untested = 0

(* C14 amended: the untested count of the report is the number of dataset  *)
(* entries (duplicates counted) without a verdict under the current        *)
(* version, that is the size of the dataset minus the number of dataset    *)
(* entries that have one; it is 0 exactly when every dataset title has a   *)
(* verdict under the current version.  The report printed when a session   *)
(* ends says the same.                                                     *)
C14_UntestedByFilter ==
    /\ C14_Report.printed =>
          /\ C14_Report.untested
                = Cardinality((DOMAIN torrent_titles) \ C14_TestedEntries)
          /\ C14_Report.untested = C14_Report.total - Cardinality(C14_TestedEntries)
          /\ C14_Report.untested = 0 <=> C14_TestedEntries = DOMAIN torrent_titles
    /\ pc \in SessionExits => stats = C14_Report

\* C14 witness: the session ended after a verdict for the title that the
\* dataset lists twice: three entries, one counted verdict, one untested
C14_Witness ==
    /\ pc \in SessionExits
    /\ stats.printed
    /\ stats.total = 3
    /\ stats.tested = 1
    /\ stats.untested = 1

(* C15 as claimed: the periodic actions of a session follow one counting   *)
(* rule.  Either the rounds are counted with the skips (the loop counter)  *)
(* or without them (the verdicts recorded), and under that rule a          *)
(* statistics snapshot was printed for every multiple of 5 reached and the *)
(* continue prompt was shown for every multiple of 10 reached.             *)
C15_OneCountingRule ==
    \/ /\ snapshots = count \div StatsEvery
       /\ asked = count \div ContinueEvery
    \/ /\ snapshots = writes \div StatsEvery
       /\ asked = writes \div ContinueEvery

(* C16: the parser is called once per round, when the title is presented  *)
(* (every step that ends at the verdict prompt makes exactly one call, for *)
(* the title it shows, and no other step makes any; in a session the       *)
(* number of calls is the number of titles presented), and the step that   *)
(* records the verdict stores, under the title that was on display, the    *)
(* very value that was on display, and touches no other title.             *)
C16_StoredIsDisplayed ==
    [][ /\ RecordStep =>
             /\ HasVerdict(results', title, library_version)
             /\ results'.titles[title][library_version].parsed_result = parsed_result
             /\ DOMAIN results'.titles = (DOMAIN results.titles) \cup {title}
             /\ \A t \in DOMAIN results.titles :
                   t # title => results'.titles[t] = results.titles[t]
        /\ pc' = "await" =>
             /\ parses' = (IF runs' = runs THEN parses ELSE 0) + 1
             /\ parsed_result' = ParseTorrentTitle(title', library_version')
        /\ (pc' \notin {"await", "killed"} /\ runs' = runs) => parses' = parses
        /\ (pc' \in {"await", "notes"} /\ mode' \in {"fresh", "retest"}) =>
             parses' = count' + 1
        /\ pc' = "notes" => UNCHANGED << title, parsed_result >> ]_vars

\* C16 witness: a title was skipped, another shown, denied with a note and
\* recorded with the value shown, and a third title is on display
C16_Witness ==
    /\ pc = "await"
    /\ mode = "fresh"
    /\ count = 2
    /\ writes = 1
    /\ parses = 3
    /\ \E p \in Pairs(results) :
          /\ results.titles[p[1]][p[2]].parsed_result = ParseTorrentTitle(p[1], p[2])
          /\ results.titles[p[1]][p[2]].notes # ""

C18_Consistent(res) ==
    /\ \A t \in DOMAIN res.titles :
          /\ DOMAIN res.titles[t] # {}
          /\ \A v \in DOMAIN res.titles[t] :
                /\ v \in DOMAIN res.versions
                /\ res.versions[v].tested_count >= 1

(* C18: in histories that start from an empty store the document is        *)
(* referentially consistent in every state: every version that is a key of *)
(* titles[t] for some title t is a key of versions with tested_count >= 1, *)
(* and no title has an empty version mapping.  This holds for the document *)
(* in memory, for the document the process loaded and for every parsable   *)
(* file at the results path.                                               *)
C18_ReferentialConsistency ==
    /\ C18_Consistent(results)
    /\ C18_Consistent(loaded)
    /\ file.kind = "json" => C18_Consistent(JsonLoad(file.text))

\* C18 witness: one title has verdicts under both versions, one of them a
\* denial, and the file holds that document
C18_Witness ==
    /\ file.kind = "json"
    /\ JsonLoad(file.text) = results
    /\ \E t \in DOMAIN results.titles :
          /\ DOMAIN results.titles[t] = Versions
          /\ \E v \in Versions : ~results.titles[t][v].is_correct

\* the titles that have a verdict under version v
C19_TitlesWith(res, v) == { t \in DOMAIN res.titles : v \in DOMAIN res.titles[t] }

(* C19: in histories made only of fresh-mode sessions, from an empty       *)
(* store, tested_count of every version equals the number of distinct      *)
(* titles that have a verdict under that version, in memory and in the     *)
(* document loaded, also with a dataset that lists a title twice.          *)
C19_CountIsDistinctTitles ==
    \A v \in Versions :
        /\ TestedCount(results, v) = Cardinality(C19_TitlesWith(results, v))
        /\ TestedCount(loaded, v) = Cardinality(C19_TitlesWith(loaded, v))

\* C19 witness: over the dataset that lists t1 twice both titles were
\* recorded and the session found nothing left to test
C19_Witness ==
    /\ mode = "fresh"
    /\ pc = "done"
    /\ torrent_titles = <<"t1", "t1", "t2">>
    /\ writes = 2
    /\ TestedCount(results, library_version) = 2
    /\ C19_TitlesWith(results, library_version) = {"t1", "t2"}

\* the distinct dataset titles without a verdict under the current version
C20_Untested(res) ==
    { t \in Range(torrent_titles) : IsUntested(res, library_version, t) }

(* C20: a fresh session whose operator gives a verdict at every verdict    *)
(* prompt and says yes at every continue prompt reaches done (within the   *)
(* rounds and verdicts the model allows).  Every recorded verdict is for   *)
(* an untested title and takes exactly that title out of the untested      *)
(* set; the verdicts recorded in the session plus the distinct titles      *)
(* still untested make up the distinct titles untested at its start, so    *)
(* that there are at most that many recorded rounds; a skipped title stays *)
(* in the untested set and is among the titles the next draw may return;   *)
(* and a session is done only with no dataset title left untested.         *)
C20_FreshTerminates ==
    /\ [][ /\ (RecordStep /\ mode = "fresh") =>
                /\ title \in C20_Untested(results)
                /\ C20_Untested(results') = C20_Untested(results) \ {title}
           /\ (mode = "fresh" /\ pc = "await" /\ count' = count + 1 /\ writes' = writes) =>
                /\ title \in C20_Untested(results')
                /\ title \in GetRandomUntestedTitle(results', torrent_titles,
                                                     library_version)
           /\ mode' = "fresh" =>
                /\ writes' + Cardinality(C20_Untested(results'))
                     = Cardinality(C20_Untested(loaded'))
                /\ pc' = "done" => C20_Untested(results') = {} ]_vars
    /\ (/\ mode = "fresh"
        /\ pc \in Prompts
        /\ written + Cardinality(C20_Untested(results)) <= MaxRecords)
         ~> (pc = "done" \/ count >= MaxRounds)

\* C20 witness: a session that skipped once and recorded both titles of the
\* dataset is done
C20_Witness ==
    /\ mode = "fresh"
    /\ pc = "done"
    /\ writes = 2
    /\ count = 3
    /\ Cardinality(C20_Untested(loaded)) = 2
    /\ C20_Untested(results) = {}

(* C9 as claimed: every corrupt text that _load_results gave up is kept    *)
(* under a backup path from then on.                                       *)
C9_BackupKept == \A b \in dropped : b \in backups

(* C10 as claimed: whatever the store holds, the constructor returns and   *)
(* the document it obtained has both top-level mappings.                   *)
C10_LoadShape ==
    runs >= 1 =>
        /\ file.kind # "undecodable"
        /\ loaded.hasVersions /\ loaded.hasTitles

====
